---------------------------- MODULE Spec2Model ----------------------------
(***************************************************************************)
(* Model of the JMESPath Pratt parser of src/src/parser.rs.                *)
(*                                                                         *)
(* parse is a function of the token stream, so every method of Parser is   *)
(* an operator from a parser state to a pair [p, r]: the parser state the  *)
(* method leaves behind and the Result it returns.  The state machine      *)
(* around them is Parser::new (Init) followed by the two halves of         *)
(* Parser::parse: the call of expr(0) and the end-of-stream check.         *)
(*                                                                         *)
(* A parser state p is a record                                            *)
(*   next   index in stream of the item the next stream.next() returns     *)
(*   token  the current token               (Parser.token)                 *)
(*   pos    the running offset              (Parser.pos)                   *)
(*   errs   every ParseError built so far, in order        (observation)   *)
(*   rets   one record per return of a bracket sub-parser  (observation)   *)
(*   calls  number of nud and led handlers invoked so far  (observation)   *)
(* The last three fields are never read by the parser operators.           *)
(***************************************************************************)
EXTENDS Integers, Sequences, FiniteSets, TLC

VARIABLES stream, parser, result, ret, pc

vars == <<stream, parser, result, ret, pc>>

(***************************************************************************)
(* Bounds of the input families.                                           *)
(***************************************************************************)
MaxLen == 4
MaxBody == 5
MaxHash == 5

---------------------------------------------------------------------------
(***************************************************************************)
(* Tokens.  lexer.rs is not part of the sources at hand: the token type,   *)
(* its binding powers, sizes and names are modelled from the use the       *)
(* parser makes of them and from the design document.                      *)
(***************************************************************************)
Tok(kind) == <<kind>>

TIdentifier(s, len) == <<"Identifier", s, len>>

TNumber(v, len) == <<"Number", v, len>>

TLiteral(v, len) == <<"Literal", v, len>>

Kind(t) == t[1]

NoToken == <<"NoToken">>

token_to_string(t) == Kind(t)

lbp(t) ==
  CASE Kind(t) = "Pipe"     -> 1
    [] Kind(t) = "Eq"       -> 2
    [] Kind(t) = "Or"       -> 5
    [] Kind(t) = "Flatten"  -> 6
    [] Kind(t) = "Star"     -> 20
    [] Kind(t) = "Dot"      -> 40
    [] Kind(t) = "Lbrace"   -> 50
    [] Kind(t) = "Filter"   -> 50
    [] Kind(t) = "Lbracket" -> 50
    [] Kind(t) = "Lparen"   -> 60
    [] OTHER                -> 0

size(t) ==
  CASE Kind(t) \in {"Identifier", "Number", "Literal"} -> t[3]
    [] Kind(t) \in {"Or", "Flatten"}                   -> 2
    [] Kind(t) = "Eof"                                 -> 0
    [] OTHER                                           -> 1

---------------------------------------------------------------------------
(***************************************************************************)
(* Ast, Option, Result and ParseError.  Every value is a tuple headed by   *)
(* its variant's name.                                                     *)
(***************************************************************************)
CurrentNode == <<"CurrentNode">>

Identifier(s) == <<"Identifier", s>>

Index(i) == <<"Index", i>>

Literal(v) == <<"Literal", v>>

JsonString(s) == <<"String", s>>

Flatten(a) == <<"Flatten", a>>

MultiList(nodes) == <<"MultiList", nodes>>

MultiHash(pairs) == <<"MultiHash", pairs>>

KeyValuePair(k, v) == <<"KeyValuePair", k, v>>

ArrayProjection(l, r) == <<"ArrayProjection", l, r>>

ObjectProjection(l, r) == <<"ObjectProjection", l, r>>

Or(l, r) == <<"Or", l, r>>

Slice(a, b, c) == <<"Slice", a, b, c>>

Subexpr(l, r) == <<"Subexpr", l, r>>

None == <<"None">>

Some(v) == <<"Some", v>>

Ok(a) == <<"Ok", a>>

Err(e) == <<"Err", e>>

\* A panic unwinds through every caller: the call of parse never returns.
Panic == <<"Panic", "called Result::unwrap() on an Err value">>

PanicNone == <<"Panic", "called Option::unwrap() on a None value">>

\* A loop that repeats with the same parser state: the call never returns.
Diverge == <<"Diverge", "loop without progress">>

IsOk(r) == r[1] = "Ok"

IsErr(r) == r[1] = "Err"

Returns(r) == r[1] \in {"Ok", "Err"}

Ret(p, r) == [p |-> p, r |-> r]

Msg(text) == <<text, <<>>>>

err(p, msg) ==
  [msg |-> <<p.token, p.pos, msg>>, line |-> 0, col |-> p.pos]

\* Err(self.err(msg)), and the error noted in errs.
Fail(p, msg) ==
  Ret([p EXCEPT !.errs = Append(@, err(p, msg))], Err(err(p, msg)))

\* The return of a bracket sub-parser entered at p, noted in rets.
Logged(fn, p, arg, o) ==
  Ret([o.p EXCEPT !.rets = Append(@, [fn |-> fn, at |-> p.next - 1,
                                      arg |-> arg, r |-> o.r,
                                      next |-> o.p.next, tok |-> o.p.token])],
      o.r)

Called(p) == [p EXCEPT !.calls = @ + 1]

---------------------------------------------------------------------------
(***************************************************************************)
(* Parser::new, advance, expect and the one-token lookahead.               *)
(***************************************************************************)
new(s) ==
  [next |-> 2, token |-> s[1], pos |-> 0,
   errs |-> <<>>, rets |-> <<>>, calls |-> 0]

stream_next(p) == IF p.next <= Len(stream) THEN stream[p.next] ELSE NoToken

stream_peek(p) == stream_next(p)

RECURSIVE advance(_)
advance(p) ==
  LET q == [p EXCEPT !.pos = @ + size(p.token)]
      t == stream_next(q)
  IN IF t = NoToken THEN q
     ELSE IF Kind(t) = "Whitespace" THEN advance([q EXCEPT !.next = @ + 1])
     ELSE [q EXCEPT !.next = @ + 1, !.token = t]

Contains(edible, name) == \E i \in 1..Len(edible) : edible[i] = name

expect(p, edible) ==
  LET q == advance(p)
  IN IF Contains(edible, token_to_string(q.token))
     THEN Ret(q, Ok(CurrentNode))
     ELSE Fail(q, <<"Expected one of the following tokens", edible>>)

---------------------------------------------------------------------------
(***************************************************************************)
(* The handlers.  try!(e) returns e's value to the caller unless it is Ok. *)
(***************************************************************************)
RECURSIVE Call(_, _)

nud_at(p) == Ret(advance(p), Ok(CurrentNode))

nud_identifier(p, s) == Ret(advance(p), Ok(Identifier(s)))

nud_literal(p, value) == Ret(advance(p), Ok(Literal(value)))

nud_lbrace(p) == Call("nud_lbrace_loop", <<p, <<>>>>)

\* The nud half of expr: the value of `left` before the infix loop, or the
\* early return of an error for a token with no nud.
nud(p) ==
  LET k == Kind(p.token)
  IN CASE k = "At"         -> Call("nud_at", <<Called(p)>>)
       [] k = "Identifier" ->
            Call("nud_identifier", <<Called(p), p.token[2]>>)
       [] k = "Star"       -> Call("nud_star", <<Called(p)>>)
       [] k = "Lbracket"   -> Call("nud_lbracket", <<Called(p)>>)
       [] k = "Flatten"    -> Call("nud_flatten", <<Called(p)>>)
       [] k = "Literal"    ->
            Call("nud_literal", <<Called(p), p.token[2]>>)
       [] k = "Lbrace"     -> Call("nud_lbrace", <<Called(p)>>)
       [] k = "Eof"        -> Fail(p, Msg("Unexpected EOF"))
       [] OTHER            -> Fail(p, Msg("Unexpected nud token"))

HasNud(t) ==
  Kind(t) \in {"At", "Identifier", "Star", "Lbracket", "Flatten", "Literal",
               "Lbrace"}

HasLed(t) == Kind(t) \in {"Dot", "Lbracket", "Flatten", "Or", "Pipe"}

led(p, left) ==
  LET k == Kind(p.token)
  IN CASE k = "Dot"      -> Call("led_dot", <<Called(p), left>>)
       [] k = "Lbracket" -> Call("led_lbracket", <<Called(p), left>>)
       [] k = "Flatten"  -> Call("led_flatten", <<Called(p), left>>)
       [] k = "Or"       -> Call("led_or", <<Called(p), left>>)
       [] k = "Pipe"     -> Call("led_pipe", <<Called(p), left>>)

\* One test of the while condition and, when it holds, one iteration.  o is
\* the parser state with `left`.  An iteration that returns Ok and leaves the
\* cursor where it was is followed by the same iteration for ever.
expr_loop(o, rbp) ==
  IF ~Returns(o.r) THEN o
  ELSE IF ~(rbp < lbp(o.p.token)) THEN o
  ELSE IF ~HasLed(o.p.token) THEN Fail(o.p, Msg("Unexpected led token"))
  ELSE IF ~IsOk(o.r) THEN Ret(o.p, Panic)
  ELSE LET n == Call("led", <<o.p, o.r[2]>>)
       IN IF IsOk(n.r) /\ n.p.next = o.p.next /\ n.p.token = o.p.token
          THEN Ret(n.p, Diverge)
          ELSE Call("expr_loop", <<n, rbp>>)

expr(p, rbp) ==
  IF HasNud(p.token) THEN Call("expr_loop", <<Call("nud", <<p>>), rbp>>)
  ELSE Call("nud", <<p>>)

nud_lbracket(p) ==
  LET q == advance(p)
  IN CASE Kind(q.token) \in {"Number", "Colon"} ->
            Call("parse_array_index", <<q>>)
       [] Kind(q.token) = "Star" ->
            IF stream_peek(q) # Tok("Rbracket")
            THEN Call("parse_multi_list", <<q>>)
            ELSE LET e == expect(q, <<"Star">>)
                 IN IF ~IsOk(e.r) THEN e
                    ELSE Call("parse_wildcard_index", <<e.p>>)
       [] OTHER -> Call("parse_multi_list", <<q>>)

led_lbracket_body(p, lhs) ==
  LET e == expect(p, <<"Number", "Colon", "Star">>)
  IN IF ~IsOk(e.r) THEN e
     ELSE IF Kind(e.p.token) \in {"Number", "Colon"}
          THEN Call("parse_array_index", <<e.p>>)
          ELSE Call("parse_wildcard_index", <<e.p>>)

led_lbracket(p, lhs) ==
  Logged("led_lbracket", p, Some(lhs),
         Call("led_lbracket_body", <<p, lhs>>))

nud_star(p) == Call("parse_wildcard_values", <<advance(p), CurrentNode>>)

nud_flatten(p) == Call("led_flatten", <<p, CurrentNode>>)

nud_lbrace_loop(p, pairs) ==
  LET q == advance(p)
      k == Call("parse_kvp", <<q>>)
  IN IF ~IsOk(k.r) THEN k
     ELSE LET ps == Append(pairs, k.r[2])
          IN CASE Kind(k.p.token) = "Rbrace" ->
                    Ret(advance(k.p), Ok(MultiHash(ps)))
               [] Kind(k.p.token) = "Comma" ->
                    Call("nud_lbrace_loop", <<k.p, ps>>)
               [] OTHER -> Fail(k.p, Msg("Expected Rbrace or Comma"))

\* The Result of expect("Colon") is dropped (line 241).
parse_kvp(p) ==
  IF Kind(p.token) = "Identifier"
  THEN LET e == expect(p, <<"Colon">>)
           q == advance(e.p)
           v == Call("expr", <<q, 0>>)
       IN IF ~IsOk(v.r) THEN v
          ELSE Ret(v.p, Ok(KeyValuePair(Literal(JsonString(p.token[2])),
                                        v.r[2])))
  ELSE Fail(p, Msg("Expected Identifier to start key value pair"))

led_flatten(p, lhs) ==
  LET rhs == Call("projection_rhs", <<p, lbp(Tok("Flatten"))>>)
  IN IF ~IsOk(rhs.r) THEN rhs
     ELSE Ret(rhs.p, Ok(ArrayProjection(Flatten(lhs), rhs.r[2])))

led_dot(p, left) ==
  LET rhs == Call("parse_dot", <<p, lbp(Tok("Dot"))>>)
  IN IF ~IsOk(rhs.r) THEN rhs
     ELSE Ret(rhs.p, Ok(Subexpr(left, rhs.r[2])))

led_or(p, left) ==
  LET rhs == Call("expr", <<advance(p), lbp(Tok("Or"))>>)
  IN IF ~IsOk(rhs.r) THEN rhs
     ELSE Ret(rhs.p, Ok(Or(left, rhs.r[2])))

led_pipe(p, left) ==
  LET rhs == Call("expr", <<advance(p), lbp(Tok("Pipe"))>>)
  IN IF ~IsOk(rhs.r) THEN rhs
     ELSE Ret(rhs.p, Ok(Subexpr(left, rhs.r[2])))

parse_dot(p, lbpArg) ==
  LET e == expect(p, <<"Identifier", "Star", "Lbrace", "Lbracket",
                       "Ampersand", "Filter">>)
  IN IF ~IsOk(e.r) THEN e
     ELSE IF Kind(e.p.token) = "Lbracket"
          THEN Call("parse_multi_list", <<advance(e.p)>>)
          ELSE Call("expr", <<e.p, lbpArg>>)

\* The parameter is shadowed by the current token's binding power (line 290).
projection_rhs(p, lbpArg) ==
  LET l == lbp(p.token)
  IN CASE Kind(p.token) = "Dot"      -> Call("parse_dot", <<p, l>>)
       [] Kind(p.token) = "Lbracket" -> Call("expr", <<p, l>>)
       [] Kind(p.token) = "Filter"   -> Call("expr", <<p, l>>)
       [] OTHER -> IF l < 10 THEN Ret(p, Ok(CurrentNode))
                   ELSE Fail(p, Msg("Syntax error found in projection"))

parse_wildcard_index_body(p) ==
  LET e == expect(p, <<"Rbracket">>)
  IN IF ~IsOk(e.r) THEN e
     ELSE LET rhs == Call("projection_rhs", <<e.p, lbp(Tok("Star"))>>)
          IN IF ~IsOk(rhs.r) THEN rhs
             ELSE Ret(rhs.p, Ok(ArrayProjection(CurrentNode, rhs.r[2])))

parse_wildcard_index(p) ==
  Logged("parse_wildcard_index", p, None,
         Call("parse_wildcard_index_body", <<p>>))

parse_wildcard_values(p, lhs) ==
  LET rhs == Call("projection_rhs", <<p, lbp(Tok("Star"))>>)
  IN IF ~IsOk(rhs.r) THEN rhs
     ELSE Ret(rhs.p, Ok(ObjectProjection(lhs, rhs.r[2])))

\* SetPart with the index forgotten: every number lands in the first part.
SetPartFirst(parts, pos, value) == [parts EXCEPT ![1] = Some(value)]

\* parts[pos] = Some(value), parts indexed from 0 in the source (line 328).
SetPart(parts, pos, value) == [parts EXCEPT ![pos + 1] = Some(value)]

\* The tail of parse_array_index, after the loop (lines 336-344).
parse_array_index_end(p, parts, pos) ==
  IF pos = 0
  THEN IF parts[1] = None THEN Ret(p, PanicNone)
       ELSE Ret(p, Ok(Index(parts[1][2])))
  ELSE LET rhs == Call("projection_rhs", <<p, lbp(Tok("Star"))>>)
       IN IF ~IsOk(rhs.r) THEN rhs
          ELSE Ret(rhs.p, Ok(ArrayProjection(
                                Slice(parts[1], parts[2], parts[3]),
                                rhs.r[2])))

parse_array_index_loop(p, parts, pos) ==
  CASE Kind(p.token) = "Colon" ->
         IF pos + 1 > 2
         THEN Fail(p, Msg("Too many colons in slice expr"))
         ELSE LET e == expect(p, <<"Number", "Colon", "Rbracket">>)
              IN IF ~IsOk(e.r) THEN e
                 ELSE Call("parse_array_index_loop", <<e.p, parts, pos + 1>>)
    [] Kind(p.token) = "Number" ->
         LET e == expect(p, <<"Colon", "Rbracket">>)
         IN IF ~IsOk(e.r) THEN e
            ELSE Call("parse_array_index_loop",
                      <<e.p, SetPart(parts, pos, p.token[2]), pos>>)
    [] Kind(p.token) = "Rbracket" ->
         Call("parse_array_index_end", <<advance(p), parts, pos>>)
    [] OTHER -> Fail(p, Msg("Unexpected token"))

parse_array_index(p) ==
  Logged("parse_array_index", p, None,
         Call("parse_array_index_loop", <<p, <<None, None, None>>, 0>>))

\* One iteration of the loop of parse_multi_list.  `continue` on a token that
\* is neither a comma nor `]`, with the cursor where the iteration found it,
\* repeats the iteration for ever.
parse_multi_list_loop(p, nodes) ==
  LET e == Call("expr", <<p, 0>>)
  IN IF ~IsOk(e.r) THEN e
     ELSE LET ns == Append(nodes, e.r[2])
          IN CASE Kind(e.p.token) = "Comma" ->
                    Call("parse_multi_list_loop", <<advance(e.p), ns>>)
               [] Kind(e.p.token) = "Rbracket" -> Ret(e.p, Ok(MultiList(ns)))
               [] OTHER ->
                    IF e.p.next = p.next /\ e.p.token = p.token
                    THEN Ret(e.p, Diverge)
                    ELSE Call("parse_multi_list_loop", <<e.p, ns>>)

parse_multi_list(p) ==
  Logged("parse_multi_list", p, None,
         Call("parse_multi_list_loop", <<p, <<>>>>))

\* self.method(...): every call of one method by another goes through Call,
\* the one recursive operator of the module.
Call(fn, a) ==
  CASE fn = "expr_loop" -> expr_loop(a[1], a[2])
    [] fn = "expr" -> expr(a[1], a[2])
    [] fn = "led_lbracket_body" -> led_lbracket_body(a[1], a[2])
    [] fn = "led_lbracket" -> led_lbracket(a[1], a[2])
    [] fn = "nud_lbracket" -> nud_lbracket(a[1])
    [] fn = "nud_star" -> nud_star(a[1])
    [] fn = "nud_flatten" -> nud_flatten(a[1])
    [] fn = "nud_lbrace_loop" -> nud_lbrace_loop(a[1], a[2])
    [] fn = "nud_lbrace" -> nud_lbrace(a[1])
    [] fn = "parse_kvp" -> parse_kvp(a[1])
    [] fn = "led_flatten" -> led_flatten(a[1], a[2])
    [] fn = "led_dot" -> led_dot(a[1], a[2])
    [] fn = "led_or" -> led_or(a[1], a[2])
    [] fn = "led_pipe" -> led_pipe(a[1], a[2])
    [] fn = "led" -> led(a[1], a[2])
    [] fn = "nud" -> nud(a[1])
    [] fn = "parse_dot" -> parse_dot(a[1], a[2])
    [] fn = "projection_rhs" -> projection_rhs(a[1], a[2])
    [] fn = "parse_wildcard_index_body" -> parse_wildcard_index_body(a[1])
    [] fn = "parse_wildcard_index" -> parse_wildcard_index(a[1])
    [] fn = "parse_wildcard_values" -> parse_wildcard_values(a[1], a[2])
    [] fn = "parse_array_index_loop" -> parse_array_index_loop(a[1], a[2], a[3])
    [] fn = "parse_array_index_end" -> parse_array_index_end(a[1], a[2], a[3])
    [] fn = "parse_array_index" -> parse_array_index(a[1])
    [] fn = "parse_multi_list_loop" -> parse_multi_list_loop(a[1], a[2])
    [] fn = "parse_multi_list" -> parse_multi_list(a[1])
    [] fn = "nud_at" -> nud_at(a[1])
    [] fn = "nud_identifier" -> nud_identifier(a[1], a[2])
    [] fn = "nud_literal" -> nud_literal(a[1], a[2])

---------------------------------------------------------------------------
(***************************************************************************)
(* The inputs: what the lexer can hand over.  Every stream ends with one   *)
(* Eof token, after which stream.next() is None.                           *)
(***************************************************************************)
SimpleKinds ==
  {"At", "Star", "Lbracket", "Rbracket", "Flatten", "Lbrace", "Rbrace",
   "Comma", "Colon", "Dot", "Or", "Pipe", "Lparen", "Whitespace"}

Alphabet ==
  {Tok(k) : k \in SimpleKinds}
    \cup {TIdentifier("a", 1), TIdentifier("bb", 2), TNumber(1, 1),
          TLiteral(JsonString("s"), 3)}

WithEof(s) == s \o <<Tok("Eof")>>

\* stream is any sequence of at most MaxLen tokens, and Eof.
Inputs(s) ==
  \E n \in 0..MaxLen : \E body \in [1..n -> Alphabet] : s = WithEof(body)

\* Bracket groups in prefix and in infix position: `[`, a body of numbers
\* and colons, and what may follow it.
BodyAlphabet == {TNumber(1, 1), TNumber(2, 1), TNumber(3, 1), Tok("Colon")}

IndexPrefixes == {<<>>, <<TIdentifier("a", 1)>>}

IndexSuffixes ==
  {<<>>,
   <<Tok("Rbracket")>>,
   <<Tok("Whitespace"), Tok("Rbracket")>>,
   <<Tok("Rbracket"), Tok("Dot"), TIdentifier("a", 1)>>,
   <<Tok("Rbracket"), Tok("Star")>>}

IndexInputs(s) ==
  \E n \in 0..MaxBody : \E body \in [1..n -> BodyAlphabet] :
    \E pre \in IndexPrefixes, suf \in IndexSuffixes :
      s = WithEof(pre \o <<Tok("Lbracket")>> \o body \o suf)

\* Brace groups.
HashAlphabet ==
  {Tok("Lbrace"), Tok("Rbrace"), Tok("Colon"), Tok("Comma"),
   TIdentifier("a", 1), TIdentifier("bb", 2)}

HashInputs(s) ==
  \E n \in 0..MaxHash : \E body \in [1..n -> HashAlphabet] : s = WithEof(body)

---------------------------------------------------------------------------
(***************************************************************************)
(* Parser::new(expr).parse()                                               *)
(***************************************************************************)
Start ==
  /\ parser = new(stream)
  /\ result = None
  /\ ret = None
  /\ pc = "new"

Init == Inputs(stream) /\ Start

\* let result = self.expr(0);
ParseExpr ==
  /\ pc = "new"
  /\ LET o == Call("expr", <<parser, 0>>)
     IN /\ parser' = o.p
        /\ result' = o.r
        /\ pc' = CASE o.r[1] = "Panic"   -> "aborted"
                   [] o.r[1] = "Diverge" -> "hung"
                   [] OTHER              -> "expr_done"
  /\ UNCHANGED <<stream, ret>>

\* let token = self.stream.next(); and the test on it (lines 86-92).
ParseEof ==
  /\ pc = "expr_done"
  /\ LET token == stream_next(parser)
         q == IF token = NoToken THEN parser
              ELSE [parser EXCEPT !.next = @ + 1]
     IN IF IsErr(result) \/ token = NoToken \/ token = Tok("Eof")
        THEN /\ parser' = q
             /\ ret' = result
        ELSE LET f == Fail(q, Msg("Did not reach token stream EOF"))
             IN /\ parser' = f.p
                /\ ret' = f.r
  /\ pc' = "done"
  /\ UNCHANGED <<stream, result>>

Next == ParseExpr \/ ParseEof

Spec == Init /\ [][Next]_vars

InitIndex == IndexInputs(stream) /\ Start

SpecIndex == InitIndex /\ [][Next]_vars

InitHash == HashInputs(stream) /\ Start

SpecHash == InitHash /\ [][Next]_vars

---------------------------------------------------------------------------
(***************************************************************************)
(* What the properties below read off the stream and the syntax trees.     *)
(***************************************************************************)
\* The byte offset at which stream[i] starts.
RECURSIVE Offset(_)
Offset(i) == IF i <= 1 THEN 0 ELSE Offset(i - 1) + size(stream[i - 1])

\* The sub-trees an Ast node owns.
Children(t) ==
  CASE t[1] = "Flatten" -> <<t[2]>>
    [] t[1] \in {"ArrayProjection", "ObjectProjection", "Or", "Subexpr",
                 "KeyValuePair"} -> <<t[2], t[3]>>
    [] t[1] \in {"MultiList", "MultiHash"} -> t[2]
    [] OTHER -> <<>>

RECURSIVE Subtree(_, _)
Subtree(x, t) ==
  \/ x = t
  \/ \E i \in 1..Len(Children(t)) : Subtree(x, Children(t)[i])

\* The index of the `]` that closes the bracket group whose body starts at
\* stream[j], d groups deep; 0 when there is none.
RECURSIVE Close(_, _)
Close(j, d) ==
  IF j > Len(stream) THEN 0
  ELSE IF Kind(stream[j]) = "Rbracket"
       THEN IF d = 0 THEN j ELSE Close(j + 1, d - 1)
       ELSE IF Kind(stream[j]) = "Lbracket" THEN Close(j + 1, d + 1)
       ELSE Close(j + 1, d)

\* The tokens of kinds ks that follow one another from stream[j] on,
\* whitespace left out.
RECURSIVE Run(_, _)
Run(j, ks) ==
  IF j > Len(stream) THEN <<>>
  ELSE IF Kind(stream[j]) = "Whitespace" THEN Run(j + 1, ks)
  ELSE IF Kind(stream[j]) \in ks THEN <<stream[j]>> \o Run(j + 1, ks)
  ELSE <<>>

\* The kind of the first token after that run.
RECURSIVE After(_, _)
After(j, ks) ==
  IF j > Len(stream) THEN "NoToken"
  ELSE IF Kind(stream[j]) \in ks \cup {"Whitespace"} THEN After(j + 1, ks)
  ELSE Kind(stream[j])

Colons(body, i) == Cardinality({j \in 1..i : Kind(body[j]) = "Colon"})

\* The number written after exactly k colons of a bracket body.
NumberAfter(body, k) ==
  LET at == {i \in 1..Len(body) :
               Kind(body[i]) = "Number" /\ Colons(body, i) = k}
  IN IF at = {} THEN None ELSE Some(body[CHOOSE i \in at : TRUE][2])

\* The scan of a bracket body gets as far as body[i]: no number before it is
\* followed by another number.
ScanReaches(body, i) ==
  \A j \in 1..(i - 1) :
    ~(Kind(body[j]) = "Number" /\ Kind(body[j + 1]) = "Number")

IsAtom(t) == Kind(t) \in {"At", "Identifier", "Literal"}

AtomAst(t) ==
  CASE Kind(t) = "At"         -> CurrentNode
    [] Kind(t) = "Identifier" -> Identifier(t[2])
    [] Kind(t) = "Literal"    -> Literal(t[2])

RetsOf(fns) ==
  {i \in 1..Len(parser.rets) : parser.rets[i].fn \in fns}

---------------------------------------------------------------------------
(***************************************************************************)
(* The properties.                                                         *)
(***************************************************************************)

\* C1: once a handler or sub-parser has produced a ParseError, parse does not
\* abort, no second ParseError is built, and parse returns the first one.
C1_FirstErrorReturned ==
  parser.errs # <<>> =>
    /\ pc # "aborted"
    /\ Len(parser.errs) = 1
    /\ pc = "done" => ret = Err(parser.errs[1])

\* C2: when expr(0) succeeds and the current token is not Eof, parse fails
\* with "Did not reach token stream EOF".
C2_TrailingTokensRejected ==
  pc = "done" /\ IsOk(result) /\ parser.token # Tok("Eof") =>
    /\ IsErr(ret)
    /\ ret[2].msg[3] = Msg("Did not reach token stream EOF")

\* C3: parse terminates on every token sequence, after at most as many
\* handler invocations as there are tokens.
C3_ParseTerminates == pc # "hung" /\ parser.calls <= Len(stream)

\* C4: `[`, `*`, `]` in prefix position is a wildcard index: the `*` is
\* accepted, and `[`, `*`, `]`, Eof parses to
\* ArrayProjection(CurrentNode, CurrentNode).
C4_WildcardIndexParses ==
  /\ pc = "done"
  /\ Len(stream) > 3
  /\ <<stream[1], stream[2], stream[3]>>
       = <<Tok("Lbracket"), Tok("Star"), Tok("Rbracket")>>
  => /\ ~(/\ IsErr(ret)
          /\ ret[2].msg[3]
               = <<"Expected one of the following tokens", <<"Star">>>>)
     /\ Len(stream) = 4 =>
          ret = Ok(ArrayProjection(CurrentNode, CurrentNode))

\* C5: a multi-select hash whose first key is not followed by `:` is
\* rejected with a ParseError.
C5_ColonRequired ==
  /\ pc = "done"
  /\ Len(stream) > 3
  /\ Kind(stream[1]) = "Lbrace"
  /\ Kind(stream[2]) = "Identifier"
  /\ Kind(stream[3]) \notin {"Colon", "Whitespace"}
  => IsErr(ret)

\* C6: the tree the infix bracket handler returns contains its left operand.
C6_LeftOperandKept ==
  \A i \in RetsOf({"led_lbracket"}) :
    LET e == parser.rets[i]
    IN IsOk(e.r) => Subtree(e.arg[2], e.r[2])

\* C7: a multi-select list of atoms (`@`, identifiers, literals) is accepted
\* only as atom, comma, atom, ..., atom, `]`, and yields those atoms in order.
C7_ListCommaSeparated ==
  \A i \in RetsOf({"parse_multi_list"}) :
    LET e == parser.rets[i]
        items == Run(e.at, {"At", "Identifier", "Literal", "Comma"})
        n == (Len(items) + 1) \div 2
    IN IsOk(e.r) /\ After(e.at, {"At", "Identifier", "Literal", "Comma"})
                      = "Rbracket"
       => /\ Len(items) = 2 * n - 1
          /\ n >= 1
          /\ \A k \in 1..Len(items) :
               IF k % 2 = 1 THEN IsAtom(items[k])
               ELSE Kind(items[k]) = "Comma"
          /\ e.r[2] = MultiList([k \in 1..n |-> AtomAst(items[2 * k - 1])])

\* C8: parse_array_index never unwraps an empty first part; with no colon it
\* yields Index(n) for the one number n; with one or two colons it yields
\* ArrayProjection(Slice(start, stop, step), rhs), the number after k colons
\* filling part k and the other parts None; the third colon the scan reaches
\* yields "Too many colons in slice expr".
C8_IndexOrSlice ==
  \A i \in RetsOf({"parse_array_index"}) :
    LET e == parser.rets[i]
        body == Run(e.at, {"Number", "Colon"})
        colons == Colons(body, Len(body))
    IN /\ e.r[1] # "Panic"
       /\ IsOk(e.r) /\ colons = 0 =>
            Len(body) = 1 /\ e.r[2] = Index(body[1][2])
       /\ IsOk(e.r) /\ colons > 0 =>
            /\ colons <= 2
            /\ e.r[2][1] = "ArrayProjection"
            /\ e.r[2][2] = Slice(NumberAfter(body, 0), NumberAfter(body, 1),
                                 NumberAfter(body, 2))
       /\ \A j \in 1..Len(body) :
            Kind(body[j]) = "Colon" /\ Colons(body, j) = 3
              /\ ScanReaches(body, j)
            => /\ IsErr(e.r)
               /\ e.r[2].msg[1] = Tok("Colon")
               /\ e.r[2].msg[3] = Msg("Too many colons in slice expr")

\* `[1:2:3].a` was parsed: a slice with start, stop and step.
C8_Witness ==
  \E i \in RetsOf({"parse_array_index"}) :
    LET e == parser.rets[i]
    IN /\ pc = "done"
       /\ IsOk(ret)
       /\ e.r = Ok(ArrayProjection(Slice(Some(1), Some(2), Some(3)),
                                   Identifier("a")))

\* C9: pos is the byte offset at which the current token starts, and so is
\* the column of a ParseError; its line is 0.
C9_PosIsOffset ==
  pc = "expr_done" =>
    /\ parser.pos = Offset(parser.next - 1)
    /\ IsErr(result) =>
         result[2].col = Offset(parser.next - 1) /\ result[2].line = 0

\* C10: when the index/slice, wildcard-index or multi-list sub-parser returns
\* Ok, the cursor is past the `]` that closes its bracket group.
C10_ClosingBracketConsumed ==
  \A i \in RetsOf({"parse_array_index", "parse_wildcard_index",
                   "parse_multi_list"}) :
    LET e == parser.rets[i]
        c == Close(e.at, 0)
    IN IsOk(e.r) => c # 0 /\ e.next - 1 > c

===========================================================================
